---------------------------- MODULE Spec2Model ----------------------------
(***************************************************************************)
(* Crawl frontier and batch scheduler of the goldie Playwright spiders     *)
(* (src/louis/crawler/spiders/goldie_playwright_parallel.py and            *)
(* goldie_playwright.py).                                                  *)
(*                                                                         *)
(* URLs and log lines are sequences of one-character strings, so that the  *)
(* log format ("<url>|<depth>" lines, one URL per line) is written and     *)
(* parsed as the code does it (str.strip, str.rsplit, int).  A log file is *)
(* the set of its lines: every loader builds a set from them.              *)
(***************************************************************************)
EXTENDS Integers, Sequences, FiniteSets, TLC

\* ------------------------------------------------------------------ bounds
\* number of runs (process starts) of the parallel spider on the same logs
MaxRuns == 2

\* ----------------------------------------------------- spider configuration
max_depth == 2
batch_size == 3
num_workers == 2

\* ------------------------------------------------------------ the web site
UA == <<"a">>
UB == <<"b", "|", "1">>
UC == <<"d">>
UD == <<"d", " ">>
UE == <<"e">>
UF == <<"f">>
UG == <<"g">>

start_urls == <<UA>>

\* the absolute URLs of the <a href> of each page, in document order
\* (response.urljoin keeps a trailing blank and a "|" of an href)
Hrefs(url) ==
    IF url = UA THEN <<UB, UC, UD, UB, UG>>
    ELSE IF url = UB THEN <<UD, UA, UE>>
    ELSE IF url = UC THEN <<UD>>
    ELSE IF url = UE THEN <<UF>>
    ELSE <<>>

\* what can happen to the task of a page: it loads ("ok"), the worker returns
\* a failure ("fail"), or retrieving its result raises ("raise")
OutcomesOf(url) ==
    IF url = UG \/ url = UB THEN {"ok"}
    ELSE IF url = UC THEN {"ok", "fail"}
    ELSE {"ok", "fail", "raise"}

\* ------------------------------------------------------------- text helpers
Whitespace == {" "}
DigitChars == <<"0", "1", "2", "3", "4", "5", "6", "7", "8", "9">>

RECURSIVE LStrip(_)
LStrip(s) ==
    IF s # <<>> /\ Head(s) \in Whitespace THEN LStrip(Tail(s)) ELSE s

RECURSIVE RStrip(_)
RStrip(s) ==
    IF s # <<>> /\ s[Len(s)] \in Whitespace
    THEN RStrip(SubSeq(s, 1, Len(s) - 1))
    ELSE s

\* str.strip()
Strip(s) == RStrip(LStrip(s))

\* str(depth) for a non-negative int
RECURSIVE StrOfNat(_)
StrOfNat(n) ==
    IF n < 10 THEN <<DigitChars[n + 1]>>
    ELSE StrOfNat(n \div 10) \o <<DigitChars[(n % 10) + 1]>>

DigitValue(c) == CHOOSE k \in 0..9 : DigitChars[k + 1] = c

IsDigit(c) == \E k \in 1..10 : DigitChars[k] = c

\* int(text) succeeds (no sign or underscore occurs in the modelled alphabet)
IsIntText(t) ==
    LET u == Strip(t)
    IN  u # <<>> /\ \A i \in 1..Len(u) : IsDigit(u[i])

RECURSIVE NatOfDigits(_)
NatOfDigits(u) ==
    IF u = <<>> THEN 0
    ELSE 10 * NatOfDigits(SubSeq(u, 1, Len(u) - 1)) + DigitValue(u[Len(u)])

\* int(text)
IntOfText(t) == NatOfDigits(Strip(t))

Contains(s, c) == \E i \in 1..Len(s) : s[i] = c

\* the index of the last occurrence of c in s (s contains c)
LastIndex(s, c) == CHOOSE i \in 1..Len(s) :
    s[i] = c /\ \A j \in (i + 1)..Len(s) : s[j] # c

\* the elements of a sequence
Range(s) == {s[i] : i \in 1..Len(s)}


\* ----------------------------------------------------------- the log format
\* the line written for a pending entry: f"{url}|{depth}"
PendingLine(e) == e[1] \o <<"|">> \o StrOfNat(e[2])

\* the line written for a scraped or errored URL: f"{url}"
UrlLine(url) == url

\* the entry _load_pending_urls adds for one line of the pending log
ParsePendingLine(raw) ==
    LET line == Strip(raw)
    IN  IF Contains(line, "|")
        THEN LET k == LastIndex(line, "|")
                 url == SubSeq(line, 1, k - 1)
                 depth == SubSeq(line, k + 1, Len(line))
             IN  IF IsIntText(depth) THEN <<url, IntOfText(depth)>>
                 ELSE <<line, 0>>
        ELSE <<line, 0>>

\* a line of the form "<url>|<depth>": int() accepts the text after the last "|"
WellFormedLine(raw) ==
    LET line == Strip(raw)
    IN  /\ Contains(line, "|")
        /\ IsIntText(SubSeq(line, LastIndex(line, "|") + 1, Len(line)))

\* a variant of LoadPendingUrls that skips every line that is not well formed
LoadPendingUrls_SkipMalformed(log) ==
    {ParsePendingLine(raw) : raw \in {l \in log : Strip(l) # <<>> /\ WellFormedLine(l)}}

\* _load_pending_urls: blank lines are skipped
LoadPendingUrls(log) ==
    {ParsePendingLine(raw) : raw \in {l \in log : Strip(l) # <<>>}}

\* _load_scraped_urls / _load_errored_urls: set(line.strip() ... if line.strip())
LoadUrls(log) == {Strip(raw) : raw \in {l \in log : Strip(l) # <<>>}}

\* _save_all_pending_urls: the pending log rewritten from the pending set
SaveAllPendingUrls(pending) == {PendingLine(e) : e \in pending}

\* ------------------------------------------------------ frontier operations
UrlsOf(pending) == {e[1] : e \in pending}

\* a variant of the test below that forgets the scraped and errored sets
CanAddPending_NoTerminalCheck(p, pending, scraped, errored, processing) ==
    /\ p[1] \notin processing
    /\ p \notin pending

\* the test of _add_pending_urls_batch on one (url, depth) pair
CanAddPending(p, pending, scraped, errored, processing) ==
    /\ p[1] \notin scraped
    /\ p[1] \notin errored
    /\ p[1] \notin processing
    /\ p \notin pending

\* new_pairs of _add_pending_urls_batch: the pairs it adds, in list order
RECURSIVE NewPairs(_, _, _, _, _)
NewPairs(pairs, pending, scraped, errored, processing) ==
    IF pairs = <<>> THEN <<>>
    ELSE LET p == Head(pairs)
         IN  IF CanAddPending(p, pending, scraped, errored, processing)
             THEN <<p>> \o NewPairs(Tail(pairs), pending \cup {p},
                                    scraped, errored, processing)
             ELSE NewPairs(Tail(pairs), pending, scraped, errored, processing)

\* _save_scraped_urls_batch / _save_errored_urls_batch: the URLs appended
NewUrls(urls, known) == SelectSeq(urls, LAMBDA u : u \notin known)

\* a variant of _remove_pending_urls_batch that removes nothing
RemovePendingUrls_Nothing(pending, urls) == pending

\* _remove_pending_urls_batch: every entry of one of the URLs is removed
RemovePendingUrls(pending, urls) == {e \in pending : e[1] \notin Range(urls)}

\* a variant of the sort below that leaves the list unsorted
MaySortFirst_Unsorted(x, rest) == TRUE

\* pending_list.sort(key=lambda x: x[1]): x may come first in the sorted list
MaySortFirst(x, rest) == \A y \in rest : x[2] <= y[2]

\* list(self.pending_urls) sorted by depth: the set is iterated in an order
\* the code does not control, the sort is stable
RECURSIVE SortedPendingLists(_)
SortedPendingLists(pending) ==
    IF pending = {} THEN {<<>>}
    ELSE UNION {{<<x>> \o t : t \in SortedPendingLists(pending \ {x})} :
                   x \in {y \in pending : MaySortFirst(y, pending)}}

\* a variant of the test below that forgets the URLs already in flight
MayDispatch_IgnoreInFlight(url, scraped, processing) == url \notin scraped

\* the test of _get_next_batch on one entry of the sorted list
MayDispatch(url, scraped, processing) ==
    url \notin scraped /\ url \notin processing

\* the loop of _get_next_batch over the sorted list
RECURSIVE TakeBatch(_, _, _, _)
TakeBatch(list, taken, scraped, processing) ==
    IF list = <<>> \/ Len(taken) >= batch_size THEN taken
    ELSE LET e == Head(list)
         IN  IF MayDispatch(e[1], scraped, processing)
             THEN TakeBatch(Tail(list), Append(taken, e), scraped,
                            processing \cup {e[1]})
             ELSE TakeBatch(Tail(list), taken, scraped, processing)

BatchUrls(b) == {b[i][1] : i \in 1..Len(b)}

\* ------------------------------------------------------------------ workers
\* unique_links of process_url_worker: duplicates removed, order kept
RECURSIVE UniqueLinks(_, _)
UniqueLinks(links, seen) ==
    IF links = <<>> THEN <<>>
    ELSE IF Head(links) \in seen THEN UniqueLinks(Tail(links), seen)
    ELSE <<Head(links)>> \o UniqueLinks(Tail(links), seen \cup {Head(links)})

\* the result dict process_url_worker returns for a page that loaded
SuccessResult(url, depth) ==
    [url |-> url, depth |-> depth, success |-> TRUE,
     links |-> UniqueLinks(Hrefs(url), {}), error |-> "none"]

\* the result dict process_url_worker returns for a page that did not load
\* (HTTP status >= 400, no response, or an exception caught in the worker)
FailureResult(url, depth) ==
    [url |-> url, depth |-> depth, success |-> FALSE,
     links |-> <<>>, error |-> "worker"]

\* next((depth for u, depth in batch if u == url), 0)
DepthInBatch(b, url) ==
    IF \E i \in 1..Len(b) : b[i][1] = url
    THEN b[CHOOSE i \in 1..Len(b) :
               b[i][1] = url /\ \A j \in 1..(i - 1) : b[j][1] # url][2]
    ELSE 0

\* a variant of ExceptionResult that blames the first URL of the batch
ExceptionResult_FirstUrl(b, url) ==
    [url |-> b[1][1], depth |-> b[1][2], success |-> FALSE,
     links |-> <<>>, error |-> "exception"]

\* the result dict process_batch_parallel builds when future.result() raises
ExceptionResult(b, url) ==
    [url |-> url, depth |-> DepthInBatch(b, url), success |-> FALSE,
     links |-> <<>>, error |-> "exception"]

\* the result dict process_batch_parallel builds for a future that is not done
\* when a shutdown is seen
CancelledResult(b, url) ==
    [url |-> url, depth |-> DepthInBatch(b, url), success |-> FALSE,
     links |-> <<>>, error |-> "cancelled"]

\* what the scheduler appends to results for a finished future
ResultOf(b, i, out) ==
    IF out = "ok" THEN SuccessResult(b[i][1], b[i][2])
    ELSE IF out = "fail" THEN FailureResult(b[i][1], b[i][2])
    ELSE ExceptionResult(b, b[i][1])

\* Future.done(): cancelled or finished
FutureDone(f) == f.st \in {"FINISHED", "CANCELLED"}

\* the partial results of the shutdown branch: one per future that is not done
\* after the cancel() calls, in the order of future_to_url
RECURSIVE CancelledResults(_, _, _)
CancelledResults(futs, b, i) ==
    IF i > Len(b) THEN <<>>
    ELSE IF ~FutureDone(futs[i])
         THEN <<CancelledResult(b, b[i][1])>> \o CancelledResults(futs, b, i + 1)
         ELSE CancelledResults(futs, b, i + 1)

\* ------------------------------------------------------------------ reducer
\* a variant of LinkPairs whose depth test is off by one
LinkPairs_OffByOne(r, scraped, errored, shutdown) ==
    IF r.success /\ ~shutdown /\ r.depth <= max_depth
    THEN LET keep == SelectSeq(r.links,
                         LAMBDA l : l \notin scraped /\ l \notin errored)
         IN  [k \in 1..Len(keep) |-> <<keep[k], r.depth + 1>>]
    ELSE <<>>

\* the pairs one result contributes to new_pending_urls
LinkPairs(r, scraped, errored, shutdown) ==
    IF r.success /\ ~shutdown /\ r.depth + 1 <= max_depth
    THEN LET keep == SelectSeq(r.links,
                         LAMBDA l : l \notin scraped /\ l \notin errored)
         IN  [k \in 1..Len(keep) |-> <<keep[k], r.depth + 1>>]
    ELSE <<>>

RECURSIVE NewPendingUrls(_, _, _, _)
NewPendingUrls(res, scraped, errored, shutdown) ==
    IF res = <<>> THEN <<>>
    ELSE LinkPairs(Head(res), scraped, errored, shutdown)
         \o NewPendingUrls(Tail(res), scraped, errored, shutdown)

\* a variant of ProcessedUrls in which one failed result spoils the batch
ProcessedUrls_AllOrNothing(res) ==
    IF \E k \in 1..Len(res) : ~res[k].success THEN <<>>
    ELSE [k \in 1..Len(res) |-> res[k].url]

\* processed_urls: the URLs of the successful results, in result order
ProcessedUrls(res) ==
    LET ok == SelectSeq(res, LAMBDA r : r.success)
    IN  [k \in 1..Len(ok) |-> ok[k].url]

\* errored_urls (the local list): the URLs of the failed results
FailedUrls(res) ==
    LET bad == SelectSeq(res, LAMBDA r : ~r.success)
    IN  [k \in 1..Len(bad) |-> bad[k].url]

\* ------------------------------------------------- the parallel spider
VARIABLES
    scraped_urls,        \* Set[str]
    pending_urls,        \* Set[Tuple[str, int]]
    processing_urls,     \* Set[str]: URLs handed to a batch, not yet reduced
    errored_urls,        \* Set[str]
    shutdown_requested,  \* set by the signal handler
    scraped_log,         \* the lines of scraped_urls_file
    pending_log,         \* the lines of pending_urls_file
    errored_log,         \* the lines of errored_urls_file
    pc,                  \* where the scheduler (start_requests) stands
    batch,               \* the batch of the current loop iteration
    futures,             \* one future per entry of the batch
    results,             \* the results list of the current loop iteration
    run,                 \* the number of the current run
    enq_order,           \* history: the entries added to pending in this run
    dispatched,          \* history: the URLs submitted to workers in this run
    spider,              \* which spider class runs: "parallel" | "sequential"
    requests,            \* sequential spider: the requests Scrapy holds
    disk,                \* environment: "ok", "failing" (open() of a log file
                         \* raises) or "recovered" (it succeeds again)
    blocks,              \* chunking: the blocks of the document being chunked
    attrs,               \* chunking: the attributes set on each block
    all_chunks,          \* chunking: the chunks emitted so far
    block_index,         \* chunking: the place of the loop over the blocks
    chunk_pc,            \* chunking: "idle" | "segment" | "returned" | "raised"
    STORAGE_MODE,        \* storage: the environment variable
    PSYCOPG_AVAILABLE,   \* storage: psycopg could be imported
    MINIO_AVAILABLE,     \* storage: minio could be imported
    ITEM_PIPELINES,      \* storage: the pipeline class configured
    s3_available,        \* storage: the flag S3Pipeline.open_spider sets
    store_calls,         \* storage history: the stores each process_item called
    returned             \* storage history: what each process_item returned

vars == <<scraped_urls, pending_urls, processing_urls, errored_urls,
          shutdown_requested, scraped_log, pending_log, errored_log,
          pc, batch, futures, results, run, enq_order, dispatched,
          spider, requests, disk,
          blocks, attrs, all_chunks, block_index, chunk_pc,
          STORAGE_MODE, PSYCOPG_AVAILABLE, MINIO_AVAILABLE, ITEM_PIPELINES,
          s3_available, store_calls, returned>>

crawler == <<scraped_urls, pending_urls, processing_urls, errored_urls,
             shutdown_requested, scraped_log, pending_log, errored_log,
             pc, batch, futures, results, run, enq_order, dispatched,
             spider, requests, disk>>
chunker == <<blocks, attrs, all_chunks, block_index, chunk_pc>>
storage == <<STORAGE_MODE, PSYCOPG_AVAILABLE, MINIO_AVAILABLE, ITEM_PIPELINES,
             s3_available, store_calls, returned>>

sets == <<scraped_urls, pending_urls, processing_urls, errored_urls>>
logs == <<scraped_log, pending_log, errored_log>>
work == <<batch, futures, results>>
kind == <<spider, requests>>

\* the first run starts with no log files
\* no document is being chunked
ChunkerIdle ==
    /\ blocks = <<>>
    /\ attrs = <<>>
    /\ all_chunks = <<>>
    /\ block_index = 1
    /\ chunk_pc = "idle"

\* no pipeline is configured
StorageIdle ==
    /\ STORAGE_MODE = "unset"
    /\ PSYCOPG_AVAILABLE = TRUE
    /\ MINIO_AVAILABLE = TRUE
    /\ ITEM_PIPELINES = "none"
    /\ s3_available = "unset"
    /\ store_calls = <<>>
    /\ returned = <<>>

\* no spider has started
CrawlerIdle ==
    /\ scraped_urls = {}
    /\ pending_urls = {}
    /\ processing_urls = {}
    /\ errored_urls = {}
    /\ shutdown_requested = FALSE
    /\ scraped_log = {}
    /\ pending_log = {}
    /\ errored_log = {}
    /\ pc = "init"
    /\ batch = <<>>
    /\ futures = <<>>
    /\ results = <<>>
    /\ run = 1
    /\ enq_order = <<>>
    /\ dispatched = {}
    /\ spider = "parallel"
    /\ requests = {}
    /\ disk = "ok"

Init ==
    /\ scraped_urls = {}
    /\ pending_urls = {}
    /\ processing_urls = {}
    /\ errored_urls = {}
    /\ shutdown_requested = FALSE
    /\ scraped_log = {}
    /\ pending_log = {}
    /\ errored_log = {}
    /\ pc = "init"
    /\ batch = <<>>
    /\ futures = <<>>
    /\ results = <<>>
    /\ run = 1
    /\ enq_order = <<>>
    /\ dispatched = {}
    /\ spider \in {"parallel", "sequential"}
    /\ requests = {}
    /\ disk = "ok"
    /\ ChunkerIdle
    /\ StorageIdle

\* with open(file, "a") ... f.write(line): the lines are appended, or open()
\* raises, the exception is logged and the file is left as it was
AppendLines(log, lines) == IF disk # "failing" THEN log \cup lines ELSE log

\* with open(file, "w") ... f.write(line): the file is rewritten, or open()
\* raises, the exception is logged and the file is left as it was
RewriteLines(log, lines) == IF disk # "failing" THEN lines ELSE log

\* _add_pending_urls_batch(pairs) on the sets given: the new pending set, the
\* new pending log and the pairs added
AddPendingUrlsBatch(pairs, pending, plog, scraped, errored, processing) ==
    LET new == NewPairs(pairs, pending, scraped, errored, processing)
    IN  [pending |-> pending \cup Range(new),
         log |-> IF new # <<>>
                 THEN AppendLines(plog, {PendingLine(e) : e \in Range(new)})
                 ELSE plog,
         new |-> new]

\* the pairs start_requests hands to _add_pending_urls_batch for start_urls
SeedPairs(scraped, errored) ==
    LET fresh == SelectSeq(start_urls,
                     LAMBDA u : u \notin scraped /\ u \notin errored)
    IN  [k \in 1..Len(fresh) |-> <<fresh[k], 0>>]

\* start_requests, before the loop: the start URLs are added to pending
Seed ==
    /\ UNCHANGED <<disk, chunker, storage>>
    /\ spider = "parallel"
    /\ pc = "init"
    /\ LET a == AddPendingUrlsBatch(SeedPairs(scraped_urls, errored_urls),
                    pending_urls, pending_log, scraped_urls, errored_urls,
                    processing_urls)
       IN  /\ pending_urls' = a.pending
           /\ pending_log' = a.log
           /\ enq_order' = enq_order \o a.new
    /\ pc' = "loop"
    /\ UNCHANGED <<scraped_urls, processing_urls, errored_urls,
                   shutdown_requested, scraped_log, errored_log, work, run,
                   dispatched, kind>>

\* a variant of the test below that never sees the shutdown request
LoopContinues_Always(shutdown) == TRUE

\* the test at the head of the loop of start_requests: go on to pull a batch
LoopContinues(shutdown) == ~shutdown

\* the loop head with shutdown_requested set: break
LoopShutdown ==
    /\ UNCHANGED <<disk, chunker, storage>>
    /\ pc = "loop"
    /\ ~LoopContinues(shutdown_requested)
    /\ pc' = "done"
    /\ batch' = <<>>
    /\ futures' = <<>>
    /\ results' = <<>>
    /\ UNCHANGED <<sets, shutdown_requested, logs, run, enq_order,
                   dispatched, kind>>

\* the loop head with shutdown_requested clear: the scheduler goes on to
\* _get_next_batch (a signal may still arrive before the batch is submitted);
\* batch and results of the last iteration are dead from here on
LoopCheck ==
    /\ UNCHANGED <<disk, chunker, storage>>
    /\ pc = "loop"
    /\ LoopContinues(shutdown_requested)
    /\ pc' = "pull"
    /\ batch' = <<>>
    /\ futures' = <<>>
    /\ results' = <<>>
    /\ UNCHANGED <<sets, shutdown_requested, logs, run, enq_order,
                   dispatched, kind>>

\* a variant of Dispatch in which _get_next_batch takes the selected entries
\* out of pending_urls
Dispatch_PopsPending ==
    /\ UNCHANGED <<disk, chunker, storage>>
    /\ pc = "pull"
    /\ \E list \in SortedPendingLists(pending_urls) :
         LET b == TakeBatch(list, <<>>, scraped_urls, processing_urls)
         IN  /\ b # <<>>
             /\ batch' = b
             /\ processing_urls' = processing_urls \cup BatchUrls(b)
             /\ pending_urls' = pending_urls \ Range(b)
             /\ futures' = [i \in 1..Len(b) |->
                              [st |-> "PENDING", seen |-> FALSE]]
             /\ dispatched' = dispatched \cup BatchUrls(b)
    /\ results' = <<>>
    /\ pc' = "collect"
    /\ UNCHANGED <<scraped_urls, errored_urls,
                   shutdown_requested, logs, run, enq_order, kind>>

\* _get_next_batch returns a batch, process_batch_parallel submits its tasks
Dispatch ==
    /\ UNCHANGED <<disk, chunker, storage>>
    /\ pc = "pull"
    /\ \E list \in SortedPendingLists(pending_urls) :
         LET b == TakeBatch(list, <<>>, scraped_urls, processing_urls)
         IN  /\ b # <<>>
             /\ batch' = b
             /\ processing_urls' = processing_urls \cup BatchUrls(b)
             /\ futures' = [i \in 1..Len(b) |->
                              [st |-> "PENDING", seen |-> FALSE]]
             /\ dispatched' = dispatched \cup BatchUrls(b)
    /\ results' = <<>>
    /\ pc' = "collect"
    /\ UNCHANGED <<scraped_urls, pending_urls, errored_urls,
                   shutdown_requested, logs, run, enq_order, kind>>

\* _get_next_batch returns no entry, the loop ends
NoMoreUrls ==
    /\ UNCHANGED <<disk, chunker, storage>>
    /\ pc = "pull"
    /\ \E list \in SortedPendingLists(pending_urls) :
         TakeBatch(list, <<>>, scraped_urls, processing_urls) = <<>>
    /\ batch' = <<>>
    /\ pc' = "done"
    /\ UNCHANGED <<sets, shutdown_requested, logs, futures, results, run,
                   enq_order, dispatched, kind>>

\* the pool starts the next submitted task on a free worker
WorkerStart(i) ==
    /\ UNCHANGED <<disk, chunker, storage>>
    /\ pc = "collect"
    /\ futures[i].st = "PENDING"
    /\ \A j \in 1..(i - 1) : futures[j].st # "PENDING"
    /\ Cardinality({j \in 1..Len(futures) : futures[j].st = "RUNNING"})
           < num_workers
    /\ futures' = [futures EXCEPT ![i].st = "RUNNING"]
    /\ UNCHANGED <<sets, shutdown_requested, logs, pc, batch, results, run,
                   enq_order, dispatched, kind>>

\* the task of a future ends (its outcome is seen when the future is yielded)
WorkerFinish(i) ==
    /\ UNCHANGED <<disk, chunker, storage>>
    /\ pc = "collect"
    /\ futures[i].st = "RUNNING"
    /\ futures' = [futures EXCEPT ![i].st = "FINISHED"]
    /\ UNCHANGED <<sets, shutdown_requested, logs, pc, batch, results, run,
                   enq_order, dispatched, kind>>

AllSeen(futs) == \A j \in 1..Len(futs) : futs[j].seen

\* as_completed yields a finished future, no shutdown is requested: its
\* result (process_url_worker returned "ok" or "fail", or result() raises)
\* is appended; after the last future process_batch_parallel returns
CollectResult(i, out) ==
    /\ UNCHANGED <<disk, chunker, storage>>
    /\ pc = "collect"
    /\ futures[i].st = "FINISHED" /\ ~futures[i].seen
    /\ ~shutdown_requested
    /\ results' = Append(results, ResultOf(batch, i, out))
    /\ futures' = [futures EXCEPT ![i].seen = TRUE]
    /\ pc' = IF AllSeen(futures') THEN "reduce" ELSE "collect"
    /\ UNCHANGED <<sets, shutdown_requested, logs, batch, run, enq_order,
                   dispatched, kind>>

\* the futures after f.cancel() on every future that is not done: a future
\* that has not started is cancelled, a running one is not
CancelFutures(futs) ==
    [j \in 1..Len(futs) |->
        IF futs[j].st = "PENDING" THEN [futs[j] EXCEPT !.st = "CANCELLED"]
        ELSE futs[j]]

\* what process_batch_parallel returns from the shutdown branch: building
\* completed_urls raises TypeError (a result dict is unhashable) when results
\* is not empty, and the outer handler returns the results collected so far
ShutdownResults(res, futs, b) ==
    IF res # <<>> THEN res
    ELSE CancelledResults(CancelFutures(futs), b, 1)

\* as_completed yields a finished future, shutdown is requested
CollectShutdown(i) ==
    /\ UNCHANGED <<disk, chunker, storage>>
    /\ pc = "collect"
    /\ futures[i].st = "FINISHED" /\ ~futures[i].seen
    /\ shutdown_requested
    /\ futures' = CancelFutures(futures)
    /\ results' = ShutdownResults(results, futures, batch)
    /\ pc' = "reduce"
    /\ UNCHANGED <<sets, shutdown_requested, logs, batch, run, enq_order,
                   dispatched, kind>>

\* the frontier after the results of a batch are reduced (the body of the
\* loop of start_requests after process_batch_parallel has returned)
Reduced(res, scraped, pending, processing, errored, slog, plog, elog, shutdown) ==
    LET processed == ProcessedUrls(res)
        failed == FailedUrls(res)
        new_pending == NewPendingUrls(res, scraped, errored, shutdown)
        \* self.processing_urls.discard(url) for every result
        proc1 == processing \ {res[k].url : k \in 1..Len(res)}
        \* _save_scraped_urls_batch, _remove_pending_urls_batch
        newS == NewUrls(processed, scraped)
        scr1 == scraped \cup Range(newS)
        slog1 == IF newS # <<>>
                 THEN AppendLines(slog, {UrlLine(u) : u \in Range(newS)})
                 ELSE slog
        pend1 == IF processed # <<>>
                 THEN RemovePendingUrls(pending, processed) ELSE pending
        plog1 == IF processed # <<>>
                 THEN RewriteLines(plog, SaveAllPendingUrls(pend1)) ELSE plog
        \* _save_errored_urls_batch, _remove_pending_urls_batch
        newE == NewUrls(failed, errored)
        err1 == errored \cup Range(newE)
        elog1 == IF newE # <<>>
                 THEN AppendLines(elog, {UrlLine(u) : u \in Range(newE)})
                 ELSE elog
        pend2 == IF failed # <<>>
                 THEN RemovePendingUrls(pend1, failed) ELSE pend1
        plog2 == IF failed # <<>>
                 THEN RewriteLines(plog1, SaveAllPendingUrls(pend2)) ELSE plog1
        \* _add_pending_urls_batch(new_pending_urls)
        added == IF new_pending # <<>> /\ ~shutdown
                 THEN AddPendingUrlsBatch(new_pending, pend2, plog2, scr1,
                                          err1, proc1)
                 ELSE [pending |-> pend2, log |-> plog2, new |-> <<>>]
    IN  [scraped |-> scr1, pending |-> added.pending, processing |-> proc1,
         errored |-> err1, slog |-> slog1, plog |-> added.log,
         elog |-> elog1, new |-> added.new]

\* one batch is reduced; the loop ends when shutdown is requested
Reduce ==
    /\ UNCHANGED <<disk, chunker, storage>>
    /\ pc = "reduce"
    /\ LET r == Reduced(results, scraped_urls, pending_urls, processing_urls,
                        errored_urls, scraped_log, pending_log, errored_log,
                        shutdown_requested)
       IN  /\ scraped_urls' = r.scraped
           /\ pending_urls' = r.pending
           /\ processing_urls' = r.processing
           /\ errored_urls' = r.errored
           /\ scraped_log' = r.slog
           /\ pending_log' = r.plog
           /\ errored_log' = r.elog
           /\ enq_order' = enq_order \o r.new
    /\ pc' = IF shutdown_requested THEN "done" ELSE "loop"
    /\ UNCHANGED <<shutdown_requested, work, run, dispatched, kind>>

\* a variant of the snapshot below that leaves out the entries in flight
ClosedPendingLog_NoInFlight(pending) ==
    SaveAllPendingUrls({e \in pending : e[1] \notin processing_urls})

\* closed(): the pending set is written out, or the empty log is removed
ClosedPendingLog(pending) ==
    IF pending # {} THEN SaveAllPendingUrls(pending) ELSE {}

Closed ==
    /\ UNCHANGED <<disk, chunker, storage>>
    /\ pc = "done"
    /\ pending_log' = RewriteLines(pending_log, ClosedPendingLog(pending_urls))
    /\ pc' = "closed"
    /\ UNCHANGED <<sets, shutdown_requested, scraped_log, errored_log, work,
                   run, enq_order, dispatched, kind>>

\* a variant of _handle_signal that also forgets the URLs in flight
HandleSignal_DropsInFlight ==
    /\ UNCHANGED <<disk, chunker, storage>>
    /\ spider = "parallel"
    /\ pc # "closed"
    /\ ~shutdown_requested
    /\ shutdown_requested' = TRUE
    /\ processing_urls' = {}
    /\ UNCHANGED <<scraped_urls, pending_urls, errored_urls, logs, pc, work,
                   run, enq_order, dispatched, kind>>

\* _handle_signal: SIGINT or SIGTERM while the process runs
HandleSignal ==
    /\ UNCHANGED <<disk, chunker, storage>>
    /\ spider = "parallel"
    /\ pc # "closed"
    /\ ~shutdown_requested
    /\ shutdown_requested' = TRUE
    /\ UNCHANGED <<sets, logs, pc, work, run, enq_order, dispatched, kind>>

\* the spider is started again on the same three files: __init__
Restart ==
    /\ UNCHANGED <<disk, chunker, storage>>
    /\ pc = "closed"
    /\ run < MaxRuns
    /\ scraped_urls' = LoadUrls(scraped_log)
    /\ pending_urls' = LoadPendingUrls(pending_log)
    /\ errored_urls' = LoadUrls(errored_log)
    /\ processing_urls' = {}
    /\ shutdown_requested' = FALSE
    /\ batch' = <<>>
    /\ futures' = <<>>
    /\ results' = <<>>
    /\ run' = run + 1
    /\ enq_order' = <<>>
    /\ dispatched' = {}
    /\ pc' = "init"
    /\ UNCHANGED <<logs, kind>>

\* ------------------------------------------------ loading foreign logs
\* lines a pending log left by an earlier version or edited by hand can hold
RawLines ==
    {<<"a">>, <<"a", "|", "1">>, <<"a", "|", "a">>, <<"a", "|">>, <<" ">>,
     <<"a", "|", " ", "2">>, <<"b", "|", "1", "|", "2">>}

\* a finished run whose pending log holds any of these lines
InitLoad ==
    /\ scraped_urls = {}
    /\ pending_urls = {}
    /\ processing_urls = {}
    /\ errored_urls = {}
    /\ shutdown_requested = FALSE
    /\ scraped_log = {}
    /\ pending_log \in SUBSET RawLines
    /\ errored_log = {}
    /\ pc = "closed"
    /\ batch = <<>>
    /\ futures = <<>>
    /\ results = <<>>
    /\ run = 1
    /\ enq_order = <<>>
    /\ dispatched = {}
    /\ spider \in {"parallel", "sequential"}
    /\ requests = {}
    /\ disk = "ok"
    /\ ChunkerIdle
    /\ StorageIdle

\* the next run starts: __init__ loads the three logs
SpecLoad == InitLoad /\ [][Restart]_vars

\* ------------------------------------------------ the sequential spider
\* (GoldiePlaywrightSpider: the same three sets and logs, driven by Scrapy's
\* engine, which calls parse or handle_error once per request)

\* the test of _add_pending_url
CanAddPendingUrl(url, depth, pending, scraped, errored) ==
    /\ url \notin scraped
    /\ url \notin errored
    /\ <<url, depth>> \notin pending

\* _add_pending_url(url, depth): the new pending set and pending log
AddPendingUrl(url, depth, pending, plog, scraped, errored) ==
    IF CanAddPendingUrl(url, depth, pending, scraped, errored)
    THEN [pending |-> pending \cup {<<url, depth>>},
          log |-> AppendLines(plog, {PendingLine(<<url, depth>>)})]
    ELSE [pending |-> pending, log |-> plog]

\* _remove_pending_url(url): the entries of the URL are removed and the
\* pending log is rewritten
RemovePendingUrl(url, pending, plog) ==
    LET left == {e \in pending : e[1] # url}
    IN  [pending |-> left, log |-> RewriteLines(plog, SaveAllPendingUrls(left))]

\* start_requests, first loop: a loaded pending entry is requested again, or
\* removed when its URL is already scraped
ResumeRequests(pending, scraped) == {e \in pending : e[1] \notin scraped}

\* start_requests, second loop, on the start URLs from position k on
RECURSIVE SeqStart(_, _, _, _, _, _)
SeqStart(k, pending, plog, reqs, scraped, errored) ==
    IF k > Len(start_urls)
    THEN [pending |-> pending, log |-> plog, requests |-> reqs]
    ELSE LET url == start_urls[k]
         IN  IF url \notin scraped /\ url \notin UrlsOf(pending)
             THEN LET a == AddPendingUrl(url, 0, pending, plog, scraped,
                                         errored)
                  IN  SeqStart(k + 1, a.pending, a.log,
                               reqs \cup {<<url, 0>>}, scraped, errored)
             ELSE SeqStart(k + 1, pending, plog, reqs, scraped, errored)

SeqStartRequests ==
    /\ UNCHANGED <<disk, chunker, storage>>
    /\ spider = "sequential"
    /\ pc = "init"
    /\ LET stale == {e \in pending_urls : e[1] \in scraped_urls}
           pend1 == pending_urls \ stale
           plog1 == IF stale # {}
                    THEN RewriteLines(pending_log, SaveAllPendingUrls(pend1))
                    ELSE pending_log
           s == SeqStart(1, pend1, plog1,
                         ResumeRequests(pending_urls, scraped_urls),
                         scraped_urls, errored_urls)
       IN  /\ pending_urls' = s.pending
           /\ pending_log' = s.log
           /\ requests' = s.requests
    /\ pc' = "crawl"
    /\ UNCHANGED <<scraped_urls, processing_urls, errored_urls,
                   shutdown_requested, scraped_log, errored_log, work, run,
                   enq_order, dispatched, spider>>

\* should_follow_links / should_save_for_later of extract_and_follow_urls
ShouldFollowLinks(current_depth) == current_depth < max_depth
ShouldSaveForLater(current_depth) == current_depth <= max_depth

\* the loop of extract_and_follow_urls over the links of the page
RECURSIVE FollowLinks(_, _, _, _, _, _, _)
FollowLinks(links, current_depth, pending, plog, reqs, scraped, errored) ==
    IF links = <<>>
    THEN [pending |-> pending, log |-> plog, requests |-> reqs]
    ELSE LET url == Head(links)
             fresh == /\ url \notin scraped
                      /\ url \notin errored
                      /\ url \notin UrlsOf(pending)
             a == AddPendingUrl(url, current_depth + 1, pending, plog,
                                scraped, errored)
         IN  IF fresh /\ ShouldFollowLinks(current_depth)
             THEN FollowLinks(Tail(links), current_depth, a.pending, a.log,
                              reqs \cup {<<url, current_depth + 1>>},
                              scraped, errored)
             ELSE IF fresh /\ ShouldSaveForLater(current_depth)
             THEN FollowLinks(Tail(links), current_depth, a.pending, a.log,
                              reqs, scraped, errored)
             ELSE FollowLinks(Tail(links), current_depth, pending, plog,
                              reqs, scraped, errored)

\* extract_and_follow_urls(response, current_depth)
ExtractAndFollowUrls(url, current_depth, pending, plog, reqs, scraped, errored) ==
    IF ShouldFollowLinks(current_depth) \/ ShouldSaveForLater(current_depth)
    THEN FollowLinks(Hrefs(url), current_depth, pending, plog, reqs,
                     scraped, errored)
    ELSE [pending |-> pending, log |-> plog, requests |-> reqs]

\* parse(response): the page of a request has loaded
SeqParse(req) ==
    /\ UNCHANGED <<disk, chunker, storage>>
    /\ spider = "sequential"
    /\ pc = "crawl"
    /\ req \in requests
    /\ LET rem == RemovePendingUrl(req[1], pending_urls, pending_log)
           scr1 == scraped_urls \cup {req[1]}
           x == ExtractAndFollowUrls(req[1], req[2], rem.pending, rem.log,
                                     requests \ {req}, scr1, errored_urls)
       IN  /\ scraped_urls' = scr1
           /\ scraped_log' = IF req[1] \notin scraped_urls
                             THEN AppendLines(scraped_log, {UrlLine(req[1])})
                             ELSE scraped_log
           /\ pending_urls' = x.pending
           /\ pending_log' = x.log
           /\ requests' = x.requests
    /\ UNCHANGED <<processing_urls, errored_urls, shutdown_requested,
                   errored_log, pc, work, run, enq_order, dispatched, spider>>

\* handle_error(failure): the request has failed
SeqHandleError(req) ==
    /\ UNCHANGED <<disk, chunker, storage>>
    /\ spider = "sequential"
    /\ pc = "crawl"
    /\ req \in requests
    /\ LET rem == RemovePendingUrl(req[1], pending_urls, pending_log)
       IN  /\ pending_urls' = rem.pending
           /\ pending_log' = rem.log
    /\ errored_urls' = errored_urls \cup {req[1]}
    /\ errored_log' = IF req[1] \notin errored_urls
                      THEN AppendLines(errored_log, {UrlLine(req[1])})
                      ELSE errored_log
    /\ requests' = requests \ {req}
    /\ UNCHANGED <<scraped_urls, processing_urls, shutdown_requested,
                   scraped_log, pc, work, run, enq_order, dispatched, spider>>

\* the engine stops (no request is left, or the crawl is interrupted): the
\* requests not yet served are dropped and closed() is called next
SeqStop ==
    /\ UNCHANGED <<disk, chunker, storage>>
    /\ spider = "sequential"
    /\ pc = "crawl"
    /\ requests' = {}
    /\ pc' = "done"
    /\ UNCHANGED <<sets, shutdown_requested, logs, work, run, enq_order,
                   dispatched, spider>>

Next ==
    \/ Seed
    \/ LoopShutdown
    \/ LoopCheck
    \/ Dispatch
    \/ NoMoreUrls
    \/ \E i \in 1..Len(futures) : WorkerStart(i)
    \/ \E i \in 1..Len(futures) : WorkerFinish(i)
    \/ \E i \in 1..Len(futures) :
           \E out \in OutcomesOf(batch[i][1]) : CollectResult(i, out)
    \/ \E i \in 1..Len(futures) : CollectShutdown(i)
    \/ Reduce
    \/ Closed
    \/ HandleSignal
    \/ Restart
    \/ SeqStartRequests
    \/ \E req \in requests : SeqParse(req)
    \/ \E req \in requests : SeqHandleError(req)
    \/ SeqStop

Spec == Init /\ [][Next]_vars

\* ------------------------------------------------- log files that fail
\* the environment: the disk starts to refuse writes, or accepts them again
\* (one episode of failing writes is followed)
DiskFails ==
    /\ pc \notin {"closed"}
    /\ disk = "ok"
    /\ disk' = "failing"
    /\ UNCHANGED <<sets, shutdown_requested, logs, pc, work, run, enq_order,
                   dispatched, kind>>
    /\ UNCHANGED <<chunker, storage>>

DiskRecovers ==
    /\ pc \notin {"closed"}
    /\ disk = "failing"
    /\ disk' = "recovered"
    /\ UNCHANGED <<sets, shutdown_requested, logs, pc, work, run, enq_order,
                   dispatched, kind>>
    /\ UNCHANGED <<chunker, storage>>

NextIO == Next \/ DiskFails \/ DiskRecovers

SpecIO == Init /\ [][NextIO]_vars

\* ------------------------------------------------------------ progress
\* the scheduler thread takes its next step when it can, and the pool starts
\* a submitted task when a worker is free; nothing makes process_url_worker
\* return, and signals and restarts are up to the operator
SchedulerStep ==
    \/ Seed
    \/ LoopShutdown
    \/ LoopCheck
    \/ Dispatch
    \/ NoMoreUrls
    \/ \E i \in 1..Len(futures) :
           \E out \in OutcomesOf(batch[i][1]) : CollectResult(i, out)
    \/ \E i \in 1..Len(futures) : CollectShutdown(i)
    \/ Reduce
    \/ Closed

PoolStep == \E i \in 1..Len(futures) : WorkerStart(i)

LiveSpec == Spec /\ WF_vars(SchedulerStep) /\ WF_vars(PoolStep)

\* the same, and every task that a worker has started returns
WorkerReturns == \E i \in 1..Len(futures) : WorkerFinish(i)

\* one run of the parallel spider in which no signal arrives, from __init__
\* on empty logs to closed()
InitParallel == Init /\ spider = "parallel"

NextRun ==
    \/ Seed
    \/ LoopCheck
    \/ Dispatch
    \/ NoMoreUrls
    \/ \E i \in 1..Len(futures) : WorkerStart(i)
    \/ \E i \in 1..Len(futures) : WorkerFinish(i)
    \/ \E i \in 1..Len(futures) :
           \E out \in OutcomesOf(batch[i][1]) : CollectResult(i, out)
    \/ Reduce
    \/ Closed

TerminationSpec ==
    /\ InitParallel
    /\ [][NextRun]_vars
    /\ WF_vars(SchedulerStep)
    /\ WF_vars(PoolStep)
    /\ WF_vars(WorkerReturns)

\* ================================================== chunking (chunking.py)
\* A document is the sequence of its blocks (the elements of class "blocks"
\* that group_heading_by_block leaves in the soup) in document order, as
\* soup.select('.blocks') returns them: block 1 is <body>, every other block
\* is the div wrapped around a heading and names the block that encloses it.
\* A block holds its own text (the heading and what follows it up to the
\* first nested block) as the word counts of its sentences, which "." joins.
\* A token is a word or a "."; tokens are kept as runs tagged with the block
\* and the sentence they come from.

max_tokens == 512
min_tokens == 256
target_bucket_size == 409

\* the largest number of blocks of a document
MaxBlocks == 3

\* own texts: a heading alone, a short section, a section of the wanted size,
\* one long sentence without a ".", long sentences closed by a ".", many
\* three-word sentences, and a text that begins with a "." (such as ".NET")
\* before one long sentence
TextHeading == <<10>>
TextShort == <<120>>
TextPerfect == <<300>>
TextOneSentence == <<600>>
TextLong == <<200, 250, 200, 0>>
TextManyShort == [i \in 1..129 |-> 3]
TextLeadingDot == <<0, 600>>

LeafTexts ==
    {TextHeading, TextShort, TextPerfect, TextOneSentence, TextLong,
     TextManyShort, TextLeadingDot}
ContainerTexts == {TextHeading, TextShort, TextPerfect}

\* the title attribute group_heading_by_block gives the div of block b: the
\* text of its heading, which is the same in every block of the document or
\* differs from block to block
HeadingTitle(b, same) == IF same THEN <<"h">> ELSE <<"h", DigitChars[b + 1]>>

\* soup.title.text.strip() of a document that has a <title>
DocumentTitle == <<"t">>

\* the attributes of the blocks after group_heading_by_block: <body> has a
\* title when the document has a <title>, every heading div has one
BlockAttrs(doc, same, titled) ==
    [b \in 1..Len(doc) |->
        [processed |-> FALSE,
         has_title |-> b # 1 \/ titled,
         title |-> IF b # 1 THEN HeadingTitle(b, same)
                   ELSE IF titled THEN DocumentTitle ELSE <<>>]]

\* block a encloses block b
RECURSIVE IsAncestor(_, _, _)
IsAncestor(doc, a, b) ==
    /\ doc[b].parent # 0
    /\ (doc[b].parent = a \/ IsAncestor(doc, a, doc[b].parent))

\* a variant of IsParent in which no block carries 'parent'
IsParent_Never(doc, b) == FALSE

\* mark_parent: the blocks that contain a nested block carry 'parent'
IsParent(doc, b) == \E c \in 1..Len(doc) : doc[c].parent = b

\* parent vectors of the documents of n blocks in document order
Shapes(n) ==
    {p \in [1..n -> 0..(n - 1)] :
        /\ p[1] = 0
        /\ \A i \in 2..n :
             /\ p[i] \in 1..(i - 1)
             /\ \A j \in (p[i] + 1)..(i - 1) : p[j] >= p[i]}

\* the documents: every shape, with a text for every block
Documents ==
    UNION {
      {[b \in 1..n |-> [parent |-> p[b], sentences |-> t[b]]] :
          <<p, t>> \in {pt \in Shapes(n) \X [1..n -> LeafTexts] :
              \A b \in 1..n :
                  (\E c \in 1..n : pt[1][c] = b) => pt[2][b] \in ContainerTexts}} :
      n \in 1..MaxBlocks}

\* the tokens of the own text of block b: words, ".", words, ...
OwnTokens(doc, b) ==
    LET sents == doc[b].sentences
    IN  [i \in 1..(2 * Len(sents) - 1) |->
           IF i % 2 = 1
           THEN [k |-> "w", b |-> b, s |-> (i + 1) \div 2, n |-> sents[(i + 1) \div 2]]
           ELSE [k |-> ".", b |-> b, s |-> i \div 2, n |-> 1]]

\* the last block of the subtree of block b
SubtreeEnd(doc, b) ==
    CHOOSE c \in b..Len(doc) :
        /\ \A i \in (b + 1)..c : IsAncestor(doc, b, i)
        /\ (c = Len(doc) \/ ~IsAncestor(doc, b, c + 1))

RECURSIVE TokensOfRange(_, _, _)
TokensOfRange(doc, i, j) ==
    IF i > j THEN <<>> ELSE OwnTokens(doc, i) \o TokensOfRange(doc, i + 1, j)

\* a variant of BlockTokens that leaves out the text of the nested blocks
BlockTokens_OwnTextOnly(doc, b) == OwnTokens(doc, b)

\* enc.encode(block.get_text()): the text of the block and of all it encloses
BlockTokens(doc, b) == TokensOfRange(doc, b, SubtreeEnd(doc, b))

\* the number of tokens of the runs toks[i..j]
RECURSIVE TokenCountRange(_, _, _)
TokenCountRange(toks, i, j) ==
    IF i > j THEN 0
    ELSE IF i = j THEN toks[i].n
    ELSE TokenCountRange(toks, i, (i + j) \div 2)
         + TokenCountRange(toks, (i + j) \div 2 + 1, j)

\* len(tokens)
TokenCount(toks) == TokenCountRange(toks, 1, Len(toks))

\* compute_tokens(block): the chunk made of one block
ComputeTokens(doc, a, b) ==
    [tokens |-> BlockTokens(doc, b),
     token_count |-> TokenCount(BlockTokens(doc, b)),
     title |-> IF a[b].has_title THEN a[b].title ELSE <<>>]

\* mark_processed(block): the block and every block it encloses
MarkProcessed(doc, a, b) ==
    [c \in 1..Len(doc) |->
        IF c \in b..SubtreeEnd(doc, b) THEN [a[c] EXCEPT !.processed = TRUE]
        ELSE a[c]]

\* block.find_next_sibling(class_='blocks'), 0 when there is none
NextSibling(doc, b) ==
    LET later == {c \in (b + 1)..Len(doc) : doc[c].parent = doc[b].parent}
    IN  IF later = {} \/ doc[b].parent = 0 THEN 0
        ELSE CHOOSE c \in later : \A d \in later : c <= d

\* a variant of JoinTitles that leaves out a title equal to the one before it
RECURSIVE JoinTitles_SkipEqual(_)
JoinTitles_SkipEqual(chunks) ==
    IF chunks = <<>> THEN <<>>
    ELSE IF Len(chunks) = 1 THEN chunks[1].title
    ELSE IF chunks[1].title = chunks[2].title THEN JoinTitles_SkipEqual(Tail(chunks))
    ELSE chunks[1].title \o <<";">> \o JoinTitles_SkipEqual(Tail(chunks))

\* ";".join([c['title'] for c in chunks])
RECURSIVE JoinTitles(_)
JoinTitles(chunks) ==
    IF chunks = <<>> THEN <<>>
    ELSE IF Len(chunks) = 1 THEN chunks[1].title
    ELSE chunks[1].title \o <<";">> \o JoinTitles(Tail(chunks))

\* collect_chunks_from_block(block, total_token_count, chunks): the chunks
\* list and the block attributes it leaves
RECURSIVE CollectChunksFromBlock(_, _, _, _, _)
CollectChunksFromBlock(doc, a, b, total_token_count, chunks) ==
    LET fresh == ~a[b].processed
        chunk == ComputeTokens(doc, a, b)
        prospective_total ==
            IF fresh THEN total_token_count + chunk.token_count
            ELSE total_token_count
    IN  IF fresh /\ prospective_total > max_tokens
        THEN [chunks |-> chunks, attrs |-> a]
        ELSE
          LET chunks1 == IF fresh THEN Append(chunks, chunk) ELSE chunks
              a1 == IF fresh THEN MarkProcessed(doc, a, b) ELSE a
              sibling == NextSibling(doc, b)
              parent_div == doc[b].parent
          IN  IF sibling # 0
              THEN CollectChunksFromBlock(doc, a1, sibling, prospective_total, chunks1)
              ELSE IF parent_div # 0
              THEN LET a2 == IF a1[parent_div].has_title THEN a1
                             ELSE [a1 EXCEPT ![parent_div] =
                                      [@ EXCEPT !.has_title = TRUE,
                                                !.title = JoinTitles(chunks1)]]
                       up == CollectChunksFromBlock(doc, a2, parent_div, 0, <<>>)
                   IN  IF Len(up.chunks) > 0 THEN up
                       ELSE [chunks |-> chunks1, attrs |-> up.attrs]
              ELSE [chunks |-> chunks1, attrs |-> a1]

\* one turn of the loop of combine_chunks_into_single_chunk; ok turns FALSE
\* when the assertion on the running total fails, and the loop then stops
CombineStep(acc, next_chunk) ==
    IF ~acc.ok THEN acc
    ELSE [ok |-> acc.chunk.token_count + next_chunk.token_count <= max_tokens,
          chunk |->
            [tokens |-> acc.chunk.tokens \o next_chunk.tokens,
             token_count |-> acc.chunk.token_count + next_chunk.token_count,
             title |-> IF next_chunk.title # acc.chunk.title
                       THEN acc.chunk.title \o <<";">> \o next_chunk.title
                       ELSE acc.chunk.title]]

\* the loop of combine_chunks_into_single_chunk over chunks[i..j], in order
RECURSIVE CombineRange(_, _, _, _)
CombineRange(acc, chunks, i, j) ==
    IF i > j THEN acc
    ELSE IF i = j THEN CombineStep(acc, chunks[i])
    ELSE LET first_half == CombineRange(acc, chunks, i, (i + j) \div 2)
         IN  IF first_half.ok THEN CombineRange(first_half, chunks, (i + j) \div 2 + 1, j)
             ELSE first_half

\* combine_chunks_into_single_chunk(chunks); ok is FALSE when an assertion fails
CombineChunksIntoSingleChunk(chunks) ==
    IF Len(chunks) = 0
    THEN [ok |-> FALSE, chunk |-> [tokens |-> <<>>, token_count |-> 0, title |-> <<>>]]
    ELSE CombineRange([ok |-> TRUE, chunk |-> chunks[1]], chunks, 2, Len(chunks))

\* the places of the "." among toks[i..j], in order
RECURSIVE DotsIn(_, _, _)
DotsIn(toks, i, j) ==
    IF i > j THEN <<>>
    ELSE IF i = j THEN (IF toks[i].k = "." THEN <<i>> ELSE <<>>)
    ELSE DotsIn(toks, i, (i + j) \div 2) \o DotsIn(toks, (i + j) \div 2 + 1, j)

\* text_content.split('.'): the runs of tokens between the "."
SplitSentences(toks) ==
    LET dots == <<0>> \o DotsIn(toks, 1, Len(toks)) \o <<Len(toks) + 1>>
    IN  [j \in 1..(Len(dots) - 1) |-> SubSeq(toks, dots[j] + 1, dots[j + 1] - 1)]

\* one turn of the bucket loop of split_chunk_into_subchunks
BucketStep(acc, sentence_chunk) ==
    LET predicted_bucket_size == acc.bucket_size + sentence_chunk.token_count
    IN  IF acc.bucket_size > 0 /\ predicted_bucket_size >= target_bucket_size
        THEN [buckets |-> Append(acc.buckets, <<sentence_chunk>>),
              bucket_size |-> sentence_chunk.token_count]
        ELSE [buckets |-> [acc.buckets EXCEPT ![Len(acc.buckets)] =
                              Append(@, sentence_chunk)],
              bucket_size |-> predicted_bucket_size]

\* the bucket loop over sentence_chunks[i..j], in order
RECURSIVE FillBuckets(_, _, _, _)
FillBuckets(acc, sentence_chunks, i, j) ==
    IF i > j THEN acc
    ELSE IF i = j THEN BucketStep(acc, sentence_chunks[i])
    ELSE LET first_half == FillBuckets(acc, sentence_chunks, i, (i + j) \div 2)
         IN  IF first_half.bucket_size >= 0
             THEN FillBuckets(first_half, sentence_chunks, (i + j) \div 2 + 1, j)
             ELSE first_half

\* split_chunk_into_subchunks(large_chunk); ok is FALSE when an assertion fails
SplitChunkIntoSubchunks(large_chunk) ==
    LET sentences == SplitSentences(large_chunk.tokens)
        sentence_chunks ==
            [i \in 1..Len(sentences) |->
                [tokens |-> sentences[i],
                 token_count |-> TokenCount(sentences[i]),
                 title |-> large_chunk.title]]
        buckets == FillBuckets([buckets |-> <<<<>>>>, bucket_size |-> 0],
                               sentence_chunks, 1, Len(sentence_chunks)).buckets
        combined == [j \in 1..Len(buckets) |-> CombineChunksIntoSingleChunk(buckets[j])]
    IN  IF large_chunk.token_count <= max_tokens
        THEN [ok |-> FALSE, chunks |-> <<>>]
        ELSE IF Len(sentence_chunks) = 1
        THEN [ok |-> TRUE, chunks |-> sentence_chunks]
        ELSE [ok |-> \A j \in 1..Len(buckets) : combined[j].ok,
              chunks |-> [j \in 1..Len(buckets) |-> combined[j].chunk]]

\* chunk_html has grouped the headings of a document into blocks and calls
\* segment_blocks_into_chunks(blocks)
InitChunk ==
    /\ CrawlerIdle
    /\ StorageIdle
    /\ blocks \in Documents
    /\ attrs \in {BlockAttrs(blocks, same, titled) :
                      same \in BOOLEAN, titled \in BOOLEAN}
    /\ all_chunks = <<>>
    /\ block_index = 1
    /\ chunk_pc = "segment"

\* for block in blocks: the block is a parent
SkipParent ==
    /\ chunk_pc = "segment"
    /\ block_index <= Len(blocks)
    /\ IsParent(blocks, block_index)
    /\ block_index' = block_index + 1
    /\ UNCHANGED <<crawler, storage, blocks, attrs, all_chunks, chunk_pc>>

\* for block in blocks: the block is already processed
SkipProcessed ==
    /\ chunk_pc = "segment"
    /\ block_index <= Len(blocks)
    /\ ~IsParent(blocks, block_index)
    /\ attrs[block_index].processed
    /\ block_index' = block_index + 1
    /\ UNCHANGED <<crawler, storage, blocks, attrs, all_chunks, chunk_pc>>

\* the block is a leaf still to be chunked
IsOpenLeaf(b) ==
    /\ chunk_pc = "segment"
    /\ b <= Len(blocks)
    /\ ~IsParent(blocks, b)
    /\ ~attrs[b].processed

\* for block in blocks: a leaf of 256..512 tokens is a chunk
PerfectChunk ==
    /\ IsOpenLeaf(block_index)
    /\ LET chunk == ComputeTokens(blocks, attrs, block_index)
       IN  /\ chunk.token_count <= max_tokens
           /\ chunk.token_count >= min_tokens
           /\ all_chunks' = Append(all_chunks, chunk)
           /\ attrs' = MarkProcessed(blocks, attrs, block_index)
    /\ block_index' = block_index + 1
    /\ UNCHANGED <<crawler, storage, blocks, chunk_pc>>

\* for block in blocks: a leaf under 256 tokens collects what follows it
MergeSmall ==
    /\ IsOpenLeaf(block_index)
    /\ LET chunk == ComputeTokens(blocks, attrs, block_index)
           got == CollectChunksFromBlock(blocks, attrs, block_index, 0, <<>>)
           one == CombineChunksIntoSingleChunk(got.chunks)
       IN  /\ chunk.token_count < min_tokens
           /\ attrs' = got.attrs
           /\ IF one.ok
              THEN /\ all_chunks' = Append(all_chunks, one.chunk)
                   /\ block_index' = block_index + 1
                   /\ chunk_pc' = chunk_pc
              ELSE /\ chunk_pc' = "raised"
                   /\ UNCHANGED <<all_chunks, block_index>>
    /\ UNCHANGED <<crawler, storage, blocks>>

\* for block in blocks: a leaf above 512 tokens is split
SplitBig ==
    /\ IsOpenLeaf(block_index)
    /\ LET chunk == ComputeTokens(blocks, attrs, block_index)
           sub == SplitChunkIntoSubchunks(chunk)
       IN  /\ chunk.token_count > max_tokens
           /\ IF sub.ok
              THEN /\ all_chunks' = all_chunks \o sub.chunks
                   /\ attrs' = MarkProcessed(blocks, attrs, block_index)
                   /\ block_index' = block_index + 1
                   /\ chunk_pc' = chunk_pc
              ELSE /\ chunk_pc' = "raised"
                   /\ UNCHANGED <<all_chunks, attrs, block_index>>
    /\ UNCHANGED <<crawler, storage, blocks>>

\* return all_chunks
SegmentReturn ==
    /\ chunk_pc = "segment"
    /\ block_index > Len(blocks)
    /\ chunk_pc' = "returned"
    /\ UNCHANGED <<crawler, storage, blocks, attrs, all_chunks, block_index>>

NextChunk ==
    \/ SkipParent
    \/ SkipProcessed
    \/ PerfectChunk
    \/ MergeSmall
    \/ SplitBig
    \/ SegmentReturn

SpecChunk == InitChunk /\ [][NextChunk]_vars

\* ============================================ storage (db.py, pipelines.py)
\* the largest number of items handed to process_item
MaxItems == 2

\* values of the STORAGE_MODE environment variable ("unset": not defined)
StorageModes == {"unset", "database", "disk", "s3", "S3", "invalid"}

\* str.lower() on these values
Lower(mode) == IF mode = "S3" THEN "s3" ELSE mode

\* db.get_storage_mode()
GetStorageMode(env_mode, psycopg, minio) ==
    LET mode == Lower(IF env_mode = "unset" THEN "database" ELSE env_mode)
    IN  IF mode = "database" /\ ~psycopg THEN "disk"
        ELSE IF mode = "s3" /\ ~minio THEN "disk"
        ELSE IF mode \notin {"database", "disk", "s3"} THEN "disk"
        ELSE mode

\* the pipeline class get_pipeline_config_for_storage_mode names for a mode
PipelineForMode(storage_mode) ==
    IF storage_mode = "database" THEN "LouisPipeline"
    ELSE IF storage_mode = "disk" THEN "DiskPipeline"
    ELSE IF storage_mode = "s3" THEN "S3Pipeline"
    ELSE "LouisPipeline"

\* the crawl items and the names of the spiders that hand items over
Items == {[url |-> UA], [url |-> UC]}
CrawlSpiderNames ==
    {"goldie", "test_goldie", "goldie_playwright", "goldie_playwright_parallel"}
SpiderNames == {"goldie_playwright_parallel", "hawn", "kurt", "other"}

\* the metadata dict db.store_to_s3 / db.store_to_disk returns for an item
StoreResult(store, item) == [id |-> "uuid", url |-> item.url, stored |-> store]

\* a variant of S3PipelineCalls that writes to disk after every S3 store
S3PipelineCalls_DiskAlways(available, name, s3_raises, disk_raises) ==
    IF name \notin CrawlSpiderNames THEN <<>>
    ELSE IF available
    THEN <<[store |-> "s3", raised |-> s3_raises],
           [store |-> "disk", raised |-> disk_raises]>>
    ELSE <<[store |-> "disk", raised |-> disk_raises]>>

\* the stores S3Pipeline.process_item calls, in order, with their outcome
S3PipelineCalls(available, name, s3_raises, disk_raises) ==
    IF name \notin CrawlSpiderNames THEN <<>>
    ELSE IF available
    THEN IF s3_raises
         THEN <<[store |-> "s3", raised |-> TRUE],
                [store |-> "disk", raised |-> disk_raises]>>
         ELSE <<[store |-> "s3", raised |-> FALSE]>>
    ELSE <<[store |-> "disk", raised |-> disk_raises]>>

\* the value S3Pipeline.process_item returns
S3PipelineReturn(available, item, name, s3_raises, disk_raises) ==
    IF name \notin CrawlSpiderNames THEN item
    ELSE IF available
    THEN IF ~s3_raises THEN StoreResult("s3", item)
         ELSE IF ~disk_raises THEN StoreResult("disk", item)
         ELSE item
    ELSE IF ~disk_raises THEN StoreResult("disk", item)
         ELSE item

\* the process starts with any environment
InitStore ==
    /\ CrawlerIdle
    /\ ChunkerIdle
    /\ STORAGE_MODE \in StorageModes
    /\ PSYCOPG_AVAILABLE \in BOOLEAN
    /\ MINIO_AVAILABLE \in BOOLEAN
    /\ ITEM_PIPELINES = "none"
    /\ s3_available = "unset"
    /\ store_calls = <<>>
    /\ returned = <<>>

\* get_pipeline_config_for_storage_mode()
GetPipelineConfigForStorageMode ==
    /\ ITEM_PIPELINES = "none"
    /\ ITEM_PIPELINES' =
         PipelineForMode(GetStorageMode(STORAGE_MODE, PSYCOPG_AVAILABLE, MINIO_AVAILABLE))
    /\ UNCHANGED <<crawler, chunker, STORAGE_MODE, PSYCOPG_AVAILABLE,
                   MINIO_AVAILABLE, s3_available, store_calls, returned>>

\* S3Pipeline.open_spider: db.get_s3_client() gives a client or None
S3OpenSpider(client_made) ==
    /\ ITEM_PIPELINES = "S3Pipeline"
    /\ s3_available = "unset"
    /\ s3_available' = IF MINIO_AVAILABLE /\ client_made THEN "true" ELSE "false"
    /\ UNCHANGED <<crawler, chunker, STORAGE_MODE, PSYCOPG_AVAILABLE,
                   MINIO_AVAILABLE, ITEM_PIPELINES, store_calls, returned>>

\* S3Pipeline.process_item(item, spider)
S3ProcessItem(item, name, s3_raises, disk_raises) ==
    /\ ITEM_PIPELINES = "S3Pipeline"
    /\ s3_available # "unset"
    /\ Len(returned) < MaxItems
    /\ store_calls' = Append(store_calls,
          [item |-> item, name |-> name,
           calls |-> S3PipelineCalls(s3_available = "true", name, s3_raises, disk_raises)])
    /\ returned' = Append(returned,
          S3PipelineReturn(s3_available = "true", item, name, s3_raises, disk_raises))
    /\ UNCHANGED <<crawler, chunker, STORAGE_MODE, PSYCOPG_AVAILABLE,
                   MINIO_AVAILABLE, ITEM_PIPELINES, s3_available>>

NextStore ==
    \/ GetPipelineConfigForStorageMode
    \/ \E client_made \in BOOLEAN : S3OpenSpider(client_made)
    \/ \E item \in Items : \E name \in SpiderNames :
         \E s3_raises \in BOOLEAN : \E disk_raises \in BOOLEAN :
            S3ProcessItem(item, name, s3_raises, disk_raises)

SpecStore == InitStore /\ [][NextStore]_vars

\* ------------------------------------------------------------------ typing
TypeOK ==
    /\ pc \in {"init", "loop", "pull", "collect", "reduce", "crawl", "done", "closed"}
    /\ spider \in {"parallel", "sequential"}
    /\ run \in 1..MaxRuns
    /\ shutdown_requested \in BOOLEAN
    /\ disk \in {"ok", "failing", "recovered"}
    /\ Len(batch) <= batch_size

\* ================================================================== claims
\* the step that reduces a batch, the step that pulls and submits a batch,
\* and the step that starts the next run
ReduceStep == pc = "reduce" /\ pc' # "reduce"
BatchStep == pc = "pull" /\ pc' = "collect"
RestartStep == pc = "closed" /\ pc' = "init"

ResultUrls(res) == {res[k].url : k \in 1..Len(res)}

\* an entry _get_next_batch may select: not scraped, not in flight
Eligible(e) == e[1] \notin scraped_urls /\ e[1] \notin processing_urls

\* the position of an entry in the enqueue history of this run
EnqPos(e) == CHOOSE k \in 1..Len(enq_order) : enq_order[k] = e

\* C1: in the parallel spider the URLs of pending_urls, scraped_urls and
\* errored_urls are pairwise disjoint at every point between scheduler steps
\* (after loading, after seeding, after every batch pull and reduction).
C1_FrontierDisjoint ==
    spider = "parallel" =>
        /\ UrlsOf(pending_urls) \cap scraped_urls = {}
        /\ UrlsOf(pending_urls) \cap errored_urls = {}
        /\ scraped_urls \cap errored_urls = {}

\* C2: within one run of the parallel spider no URL is submitted to a worker
\* twice, and every URL whose result is reduced ends in exactly one of
\* scraped_urls and errored_urls.
C2_AtMostOnce ==
    [][/\ BatchStep =>
            /\ BatchUrls(batch') \cap dispatched = {}
            /\ Cardinality(BatchUrls(batch')) = Len(batch')
       /\ ReduceStep =>
            \A u \in ResultUrls(results) :
                (u \in scraped_urls') # (u \in errored_urls')]_vars

\* C3: pending never holds two entries with the same URL (a second enqueue
\* of a pending URL at another depth is a no-op).
C3_OneEntryPerUrl ==
    \A e1, e2 \in pending_urls : e1[1] = e2[1] => e1 = e2

\* C4: an enqueue never creates a pending entry, nor a line of the pending
\* log, for a URL that is in scraped_urls or errored_urls when it is enqueued
\* (both spiders; every step but the reload of the logs).
C4_TerminalNeverEnqueued ==
    [][~RestartStep =>
         /\ \A e \in pending_urls' \ pending_urls :
                e[1] \notin scraped_urls' \cup errored_urls'
         /\ \A l \in pending_log' \ pending_log :
                \E e \in pending_urls' \ pending_urls : l = PendingLine(e)]_vars

\* C4 witness: the parallel reducer has handed _add_pending_urls_batch a link
\* to a URL that the same reduction made scraped or errored.
C4_Witness ==
    /\ spider = "parallel"
    /\ pc = "loop"
    /\ \E k \in 1..Len(results) :
         /\ results[k].success
         /\ results[k].depth + 1 <= max_depth
         /\ \E l \in Range(results[k].links) :
              /\ l \in ResultUrls(results)
              /\ l \in scraped_urls \cup errored_urls
              /\ l \notin UrlsOf(pending_urls)

\* C5: writing the frontier out (pending entries as "url|depth" lines, scraped
\* and errored URLs one per line) and loading it again gives back the same
\* pending, scraped and errored sets.
C5_RoundTrip ==
    /\ LoadPendingUrls(SaveAllPendingUrls(pending_urls)) = pending_urls
    /\ LoadUrls({UrlLine(u) : u \in scraped_urls}) = scraped_urls
    /\ LoadUrls({UrlLine(u) : u \in errored_urls}) = errored_urls

\* C6: a task discarded because of a shutdown is not recorded as errored and
\* its URL stays pending; every URL that is pending or in flight when the run
\* closes is in the pending set the next run loads.
C6_ShutdownKeepsWork ==
    [][/\ (spider = "parallel" /\ ReduceStep) =>
            \A k \in 1..Len(results) :
                results[k].error = "cancelled" =>
                    /\ results[k].url \notin errored_urls'
                    /\ results[k].url \in UrlsOf(pending_urls')
       /\ (spider = "parallel" /\ RestartStep) =>
            \A u \in UrlsOf(pending_urls) \cup processing_urls :
                u \in UrlsOf(pending_urls')]_vars

\* C7: _get_next_batch returns at most batch_size entries of pending with
\* pairwise distinct URLs, none scraped or in flight before the call; no
\* eligible entry of another URL is left out while the batch has room or
\* holds an entry of strictly greater depth; every returned URL is in
\* processing_urls afterwards.
C7_NextBatch ==
    [][BatchStep =>
         /\ Len(batch') <= batch_size
         /\ \A i, j \in 1..Len(batch') :
                batch'[i][1] = batch'[j][1] => i = j
         /\ \A i \in 1..Len(batch') :
                /\ batch'[i] \in pending_urls
                /\ Eligible(batch'[i])
                /\ batch'[i][1] \in processing_urls'
         /\ \A e \in pending_urls :
                (Eligible(e) /\ e[1] \notin BatchUrls(batch')) =>
                    /\ Len(batch') = batch_size
                    /\ \A i \in 1..Len(batch') : e[2] >= batch'[i][2]]_vars

\* C7 witness: a full batch has been pulled and an eligible entry of another
\* URL was left in pending.
C7_Witness ==
    /\ pc = "collect"
    /\ Len(batch) = batch_size
    /\ \E e \in pending_urls :
         e[1] \notin scraped_urls /\ e[1] \notin processing_urls

\* C8 (as stated): among pending entries of equal depth _get_next_batch
\* follows the enqueue order: an entry enqueued earlier is never left out of
\* a batch that holds an entry of the same depth enqueued later.
C8_EnqueueOrder ==
    [][BatchStep =>
         \A e \in pending_urls, i \in 1..Len(batch') :
             ( /\ Eligible(e)
               /\ e[1] \notin BatchUrls(batch')
               /\ e[2] = batch'[i][2]
               /\ e \in Range(enq_order)
               /\ batch'[i] \in Range(enq_order) )
             => EnqPos(batch'[i]) < EnqPos(e)]_vars

\* C8 (amended): _get_next_batch orders its batch by depth only: the entries
\* are returned in non-decreasing depth, whatever their enqueue order.
C8_DepthOrderOnly ==
    [][BatchStep =>
         \A i, j \in 1..Len(batch') : i < j => batch'[i][2] <= batch'[j][2]]_vars

\* C8 witness: a batch holds an entry enqueued after an eligible entry of
\* the same depth that was left out.
C8_Witness ==
    /\ pc = "collect"
    /\ Len(batch) = batch_size
    /\ \E e \in pending_urls, i \in 1..Len(batch) :
         /\ e[1] \notin scraped_urls /\ e[1] \notin processing_urls
         /\ e[2] = batch[i][2]
         /\ e \in Range(enq_order) /\ batch[i] \in Range(enq_order)
         /\ EnqPos(e) < EnqPos(batch[i])

C10_DepthBound ==
    [][(spider = "parallel" /\ ReduceStep) =>
         /\ \A e \in pending_urls' \ pending_urls :
                /\ e[2] <= max_depth
                /\ \E k \in 1..Len(results) :
                       /\ results[k].success
                       /\ e[2] = results[k].depth + 1
                       /\ e[1] \in Range(results[k].links)
         /\ \A k \in 1..Len(results) :
                results[k].depth >= max_depth =>
                    \A l \in Range(results[k].links) :
                        <<l, results[k].depth + 1>> \notin pending_urls']_vars

\* C10 witness: a page at depth max_depth was scraped, it has a link that is
\* in none of the sets, and the link was not enqueued.
C10_Witness ==
    /\ pc = "loop"
    /\ ~shutdown_requested
    /\ \E k \in 1..Len(results) :
         /\ results[k].success
         /\ results[k].depth = max_depth
         /\ \E l \in Range(results[k].links) :
              /\ l \notin scraped_urls \cup errored_urls
              /\ l \notin UrlsOf(pending_urls)

\* C11: no URL whose recorded depth is greater than max_depth is fetched, in
\* either spider and in any run: every request the sequential spider has
\* handed to the engine and every entry of a batch of the parallel spider
\* has a depth of at most max_depth.
C11_NoFetchBeyondMaxDepth ==
    /\ \A req \in requests : req[2] <= max_depth
    /\ \A i \in 1..Len(batch) : batch[i][2] <= max_depth

\* C12: a URL that is in errored_urls (added in this run or loaded from the
\* errored log) is never submitted to a worker during the run.
C12_ErroredNeverDispatched ==
    [][BatchStep => BatchUrls(batch') \cap errored_urls = {}]_vars

\* C13: every dispatched batch eventually resolves, even if a worker never
\* returns: a per-task deadline ends the wait and the scheduler goes on to
\* reduce the batch.
C13_BatchResolves == (pc = "collect") ~> (pc = "reduce")

\* task i of the current batch has completed or has been declared cancelled
TaskSettled(i) ==
    \/ FutureDone(futures[i])
    \/ \E k \in 1..Len(results) :
           results[k].url = batch[i][1] /\ results[k].error = "cancelled"

\* C14: a batch is a barrier: its results are not reduced and the next batch
\* is not submitted while one of its tasks is neither completed nor declared
\* timed out or cancelled.
C14_Barrier ==
    [][(spider = "parallel" /\ (ReduceStep \/ (pc = "loop" /\ pc' = "pull"))) =>
         \A i \in 1..Len(futures) : TaskSettled(i)]_vars

\* C15 (as stated): once shutdown_requested is set, no task is submitted to
\* the worker pool, at whatever point the signal arrives.
C15_NoSubmitAfterSignal ==
    [][(spider = "parallel" /\ BatchStep) => ~shutdown_requested]_vars

\* C15 (amended): once shutdown_requested is set the scheduler never passes
\* the head of its loop again, so no further batch is pulled; only the batch
\* whose loop-head test preceded the signal may still be pulled and submitted.
C15_NoPullAfterSignal ==
    [][(spider = "parallel" /\ shutdown_requested /\ pc # "pull") =>
         pc' # "pull"]_vars

\* C15 witness: the signal has arrived between the test at the head of the
\* loop and _get_next_batch, and an entry is there to be pulled and submitted.
C15_Witness ==
    /\ spider = "parallel"
    /\ pc = "pull"
    /\ shutdown_requested
    /\ \E e \in pending_urls : Eligible(e)

\* C16: when a shutdown is requested while a batch is in flight, the result
\* of every task of the batch that has completed is still reduced: no
\* completed result is discarded.
C16_CompletedStillReduced ==
    [][(spider = "parallel" /\ ReduceStep /\ shutdown_requested) =>
         \A i \in 1..Len(futures) :
             futures[i].st = "FINISHED" =>
                 \E k \in 1..Len(results) :
                     /\ results[k].url = batch[i][1]
                     /\ results[k].error # "cancelled"]_vars

\* C17: no discovered work is lost by a shutdown: when the run has closed
\* after a shutdown request, every link of a successful result of the last
\* reduced batch that is within max_depth and neither scraped nor errored is
\* an entry of the persisted pending log.
C17_NoWorkLost ==
    (spider = "parallel" /\ pc = "closed" /\ shutdown_requested) =>
        \A k \in 1..Len(results) :
            (results[k].success /\ results[k].depth + 1 <= max_depth) =>
                \A l \in Range(results[k].links) :
                    l \notin scraped_urls \cup errored_urls =>
                        l \in UrlsOf(LoadPendingUrls(pending_log))

\* the step in which closed() runs
CloseStep == pc = "done" /\ pc' = "closed"

\* C18: when the spider closes, the pending log holds exactly the in-memory
\* pending set (one "url|depth" line per entry, entries in flight included,
\* and loading it gives the set back); when the set is empty the log is
\* removed.
C18_CloseSnapshot ==
    [][CloseStep =>
         /\ pending_log' = {PendingLine(e) : e \in pending_urls}
         /\ LoadPendingUrls(pending_log') = pending_urls
         /\ (pending_urls = {} => pending_log' = {})]_vars

\* C18 witness: the parallel spider has closed with entries in flight, which
\* are in the pending log.
C18_Witness ==
    /\ spider = "parallel"
    /\ pc = "closed"
    /\ processing_urls # {}
    /\ \A u \in processing_urls :
           \E e \in pending_urls : e[1] = u /\ PendingLine(e) \in pending_log

\* C19: an entry whose log write failed stays in memory and is written by a
\* later snapshot: when the first run has closed with the disk accepting
\* writes, every pending entry, every scraped URL and every errored
\* URL in memory has its line in its log.
C19_FailedWriteRecovered ==
    (run = 1 /\ pc = "closed" /\ disk # "failing") =>
        /\ {PendingLine(e) : e \in pending_urls} \subseteq pending_log
        /\ {UrlLine(u) : u \in scraped_urls} \subseteq scraped_log
        /\ {UrlLine(u) : u \in errored_urls} \subseteq errored_log

\* C20: an exception raised by a task, or while its result is retrieved,
\* becomes one failed result for the URL of that task: the results collected
\* before are kept, the other tasks are unaffected, and the scheduler reduces
\* the batch (the URL is errored, successful URLs are scraped) and returns to
\* the head of its loop.
C20_ExceptionIsolated ==
    [][(spider = "parallel" /\ ~shutdown_requested) =>
         /\ (pc = "collect" /\ results' # results) =>
                \E i \in 1..Len(futures) :
                    /\ ~futures[i].seen /\ futures'[i].seen
                    /\ results' = Append(results, results'[Len(results')])
                    /\ results'[Len(results')].url = batch[i][1]
                    /\ results'[Len(results')].depth = batch[i][2]
                    /\ results'[Len(results')].error = "exception" =>
                           ~results'[Len(results')].success
         /\ ReduceStep =>
                /\ pc' = "loop"
                /\ \A k \in 1..Len(results) :
                       /\ results[k].error = "exception" =>
                              results[k].url \in errored_urls'
                       /\ results[k].success =>
                              results[k].url \in scraped_urls']_vars

\* C20 witness: a batch in which retrieving one result raised and another
\* task succeeded has been reduced, and the scheduler is back at the head of
\* its loop.
C20_Witness ==
    /\ spider = "parallel"
    /\ pc = "loop"
    /\ ~shutdown_requested
    /\ \E j, k \in 1..Len(results) :
         /\ results[j].error = "exception"
         /\ results[j].url \in errored_urls
         /\ results[k].success
         /\ results[k].url \in scraped_urls

\* the entry e is what "<url>|<depth>" reads as, for the line l
EntryOfLine(l, e) ==
    LET line == Strip(l)
    IN  \E k \in 1..Len(line) :
          /\ line[k] = "|"
          /\ e[1] = SubSeq(line, 1, k - 1)
          /\ ~Contains(SubSeq(line, k + 1, Len(line)), "|")
          /\ IsIntText(SubSeq(line, k + 1, Len(line)))
          /\ e[2] = IntOfText(SubSeq(line, k + 1, Len(line)))

NonBlank(log) == {l \in log : Strip(l) # <<>>}

\* C21 as stated: loading the pending log makes entries from its well-formed
\* lines only, a line that is not "<url>|<depth>" with an integer depth makes
\* no entry, and the load completes.
C21_MalformedSkipped ==
    [][RestartStep =>
         /\ pc' = "init"
         /\ \A e \in pending_urls' :
              \E l \in NonBlank(pending_log) :
                  WellFormedLine(l) /\ EntryOfLine(l, e)]_vars

\* C21 as the code has it: only blank lines are skipped; a well-formed line
\* makes the entry it reads as, any other non-blank line makes the entry
\* (stripped line, 0), nothing else is loaded, and the load completes.
C21_MalformedKeptAtDepth0 ==
    [][RestartStep =>
         /\ pc' = "init"
         /\ \A l \in NonBlank(pending_log) :
              IF WellFormedLine(l)
              THEN \E e \in pending_urls' : EntryOfLine(l, e)
              ELSE <<Strip(l), 0>> \in pending_urls'
         /\ \A e \in pending_urls' :
              \E l \in NonBlank(pending_log) :
                  \/ WellFormedLine(l) /\ EntryOfLine(l, e)
                  \/ ~WellFormedLine(l) /\ e = <<Strip(l), 0>>]_vars

\* C21 witness: a log with a blank line, a well-formed line and a line whose
\* depth is not an integer has been loaded, and the last one is a pending
\* entry of depth 0.
C21_Witness ==
    /\ pc = "init"
    /\ run > 1
    /\ \E l \in pending_log : Strip(l) = <<>>
    /\ \E l \in NonBlank(pending_log) :
         WellFormedLine(l) /\ \E e \in pending_urls : EntryOfLine(l, e)
    /\ \E l \in NonBlank(pending_log) :
         /\ Contains(l, "|")
         /\ ~WellFormedLine(l)
         /\ <<Strip(l), 0>> \in pending_urls

\* ------------------------------------------------------ chunking claims
\* the tokens of a sequence of chunks or sentences, one after the other
RECURSIVE Flatten(_)
Flatten(seqs) == IF seqs = <<>> THEN <<>> ELSE Head(seqs) \o Flatten(Tail(seqs))

\* the tokens of the whole document: the own text of every block, in order
DocumentTokens == Flatten([b \in 1..Len(blocks) |-> OwnTokens(blocks, b)])

\* the token count of the whole document
DocumentTotal == TokenCount(DocumentTokens)

\* block b encloses a nested heading block
HasNestedBlock(b) == \E c \in 1..Len(blocks) : blocks[c].parent = b

\* the chunks a step of the segmentation loop adds to all_chunks
NewChunks == SubSeq(all_chunks', Len(all_chunks) + 1, Len(all_chunks'))

\* the step that splits an oversized leaf, and the step that starts a merge
\* at a small leaf
SplitStep ==
    /\ IsOpenLeaf(block_index)
    /\ ComputeTokens(blocks, attrs, block_index).token_count > max_tokens
    /\ block_index' = block_index + 1
MergeStep ==
    /\ IsOpenLeaf(block_index)
    /\ ComputeTokens(blocks, attrs, block_index).token_count < min_tokens
    /\ block_index' = block_index + 1

\* C22: every emitted chunk has token_count <= 512.
C22_ChunkAtMost512 ==
    \A k \in 1..Len(all_chunks) : all_chunks[k].token_count <= max_tokens

\* C23: after segmentation every chunk has token_count >= 256, unless it is
\* the single chunk of a document whose total is below 256.
C23_ChunkAtLeast256 ==
    chunk_pc = "returned" =>
        \A k \in 1..Len(all_chunks) :
            \/ all_chunks[k].token_count >= min_tokens
            \/ Len(all_chunks) = 1 /\ DocumentTotal < min_tokens

\* C24: a document whose total is below 256 tokens yields exactly one chunk,
\* whose tokens are the tokens of the whole document and whose token_count is
\* the total of the document.
C24_SmallDocumentOneChunk ==
    (chunk_pc = "returned" /\ DocumentTotal < min_tokens) =>
        /\ Len(all_chunks) = 1
        /\ all_chunks[1].tokens = DocumentTokens
        /\ all_chunks[1].token_count = DocumentTotal

\* C24 witness: a document under 256 tokens with a heading block nested in
\* another heading block has been segmented.
C24_Witness ==
    /\ chunk_pc = "returned"
    /\ DocumentTotal < min_tokens
    /\ \E b \in 1..Len(blocks) : blocks[b].parent > 1
    /\ Len(all_chunks) = 1

\* C25: splitting a leaf of more than 512 tokens made of several sentences,
\* each shorter than the bucket target, yields at least two chunks, none above
\* 512 tokens, whose tokens read in output order are the sentences of the
\* block in their order, every sentence whole in one chunk.
C25_SplitKeepsSentences ==
    [][(SplitStep /\
        LET sentences == SplitSentences(BlockTokens(blocks, block_index))
        IN  /\ Len(sentences) >= 2
            /\ \A i \in 1..Len(sentences) :
                 TokenCount(sentences[i]) < target_bucket_size)
       => /\ Len(NewChunks) >= 2
          /\ \A k \in 1..Len(NewChunks) : NewChunks[k].token_count <= max_tokens
          /\ Flatten([k \in 1..Len(NewChunks) |-> NewChunks[k].tokens])
               = Flatten(SplitSentences(BlockTokens(blocks, block_index)))
          /\ \A i, j \in 1..Len(NewChunks) :
               i # j => {t.s : t \in Range(NewChunks[i].tokens)}
                          \cap {t.s : t \in Range(NewChunks[j].tokens)} = {}]_vars

\* the blocks whose text a chunk holds
SourceBlocks(chunk) == {t.b : t \in Range(chunk.tokens)}

\* C26: chunks are emitted in document order: every block of an earlier chunk
\* stands in the document no later than every block of a later chunk.
C26_DocumentOrder ==
    \A i, j \in 1..Len(all_chunks) :
        i < j => \A x \in SourceBlocks(all_chunks[i]) :
                     \A y \in SourceBlocks(all_chunks[j]) : x <= y

C30_NoTextTwice ==
    \A i, j \in 1..Len(all_chunks) :
        i # j => Range(all_chunks[i].tokens) \cap Range(all_chunks[j].tokens) = {}

\* ------------------------------------------------------- storage claims
\* the process_item calls made for a crawl item
CrawlCalls == {k \in 1..Len(store_calls) : store_calls[k].name \in CrawlSpiderNames}

\* C28: S3Pipeline.process_item for a crawl item tries the S3 store first when
\* S3 is available and calls the disk store only if the S3 store raised; when
\* S3 is unavailable it calls the disk store only; it returns the result of
\* the store that succeeded, and the item itself when every store it tried
\* raised.
C28_S3ThenDisk ==
    \A k \in CrawlCalls :
        LET calls == store_calls[k].calls
            item == store_calls[k].item
        IN  /\ s3_available = "true" =>
                 /\ Len(calls) \in {1, 2}
                 /\ calls[1].store = "s3"
                 /\ Len(calls) = 2 <=> calls[1].raised
                 /\ Len(calls) = 2 => calls[2].store = "disk"
            /\ s3_available = "false" =>
                 /\ Len(calls) = 1
                 /\ calls[1].store = "disk"
            /\ returned[k] =
                 IF calls[Len(calls)].raised THEN item
                 ELSE [id |-> "uuid", url |-> item.url,
                       stored |-> calls[Len(calls)].store]

\* C28 witness: with S3 available, one crawl item was stored on disk after the
\* S3 store raised, and another came back unchanged after both stores raised.
C28_Witness ==
    /\ s3_available = "true"
    /\ \E k \in CrawlCalls :
         /\ Len(store_calls[k].calls) = 2
         /\ ~store_calls[k].calls[2].raised
         /\ returned[k].url = store_calls[k].item.url
         /\ returned[k] # store_calls[k].item
    /\ \E k \in CrawlCalls :
         /\ Len(store_calls[k].calls) = 2
         /\ store_calls[k].calls[2].raised
         /\ returned[k] = store_calls[k].item

\* C29: with both client libraries installed, STORAGE_MODE 'database' selects
\* LouisPipeline, 'disk' DiskPipeline and 's3' S3Pipeline (in any letter
\* case), and an unset or unrecognised STORAGE_MODE selects LouisPipeline.
C29_PipelineSelection ==
    (ITEM_PIPELINES # "none" /\ PSYCOPG_AVAILABLE /\ MINIO_AVAILABLE) =>
        ITEM_PIPELINES =
            CASE STORAGE_MODE = "database" -> "LouisPipeline"
              [] STORAGE_MODE = "disk" -> "DiskPipeline"
              [] STORAGE_MODE \in {"s3", "S3"} -> "S3Pipeline"
              [] OTHER -> "LouisPipeline"



\* ------------------------------------------------ chunking claims, continued
\* the sibling walk of collect_chunks_from_block from block b: b and the
\* blocks that follow it under the same parent, the processed ones left out
RECURSIVE SiblingChain(_, _, _)
SiblingChain(doc, a, b) ==
    IF b = 0 THEN <<>>
    ELSE (IF a[b].processed THEN <<>> ELSE <<b>>)
         \o SiblingChain(doc, a, NextSibling(doc, b))

\* the running total after the first k blocks of a chain, and their tokens
RECURSIVE ChainTotal(_, _, _)
ChainTotal(doc, chain, k) ==
    IF k = 0 THEN 0
    ELSE ChainTotal(doc, chain, k - 1) + TokenCount(BlockTokens(doc, chain[k]))
RECURSIVE ChainTokens(_, _, _)
ChainTokens(doc, chain, k) ==
    IF k = 0 THEN <<>>
    ELSE ChainTokens(doc, chain, k - 1) \o BlockTokens(doc, chain[k])

\* C31: the merge started at a leaf under 256 tokens takes only following
\* leaf siblings, stops as soon as the running total lies in [256, 512], and
\* goes up to the enclosing container only when the siblings are exhausted
\* with the total still below 256.
C31_StopsAt256 ==
    [][MergeStep =>
         LET chain == SiblingChain(blocks, attrs, block_index)
             new == NewChunks[1]
             ascended == \E b \in SourceBlocks(new) : HasNestedBlock(b) /\ IsAncestor(blocks, b, block_index)
         IN  /\ \A k \in 1..Len(chain) :
                  (/\ ChainTotal(blocks, chain, k) >= min_tokens
                   /\ ChainTotal(blocks, chain, k) <= max_tokens
                   /\ ChainTotal(blocks, chain, k - 1) < min_tokens)
                  => new.tokens = ChainTokens(blocks, chain, k)
             /\ ascended => ChainTotal(blocks, chain, Len(chain)) < min_tokens
             /\ ~ascended => \A b \in SourceBlocks(new) :
                                 /\ ~HasNestedBlock(b)
                                 /\ b \in Range(chain)]_vars

\* the blocks of a set in document order
RECURSIVE InOrder(_)
InOrder(S) ==
    IF S = {} THEN <<>>
    ELSE LET first == CHOOSE x \in S : \A y \in S : x <= y
         IN  <<first>> \o InOrder(S \ {first})

\* the outermost blocks whose text a chunk holds, in document order
TopBlocks(chunk) ==
    InOrder({b \in SourceBlocks(chunk) : blocks[b].parent \notin SourceBlocks(chunk)})

\* the block directly under <body> that is, or encloses, block b
RECURSIVE ChildOfBody(_, _)
ChildOfBody(doc, b) ==
    IF doc[b].parent = 1 THEN b ELSE ChildOfBody(doc, doc[b].parent)

\* the blocks whose titles make the title of a chunk emitted by the merge
\* started at block_index: the outermost blocks of the chunk, and for a
\* <body> without a title the blocks collected directly under it
ContributingBlocks(chunk) ==
    IF TopBlocks(chunk) = <<1>> /\ ~attrs[1].has_title /\ block_index # 1
    THEN SiblingChain(blocks, attrs, ChildOfBody(blocks, block_index))
    ELSE TopBlocks(chunk)

\* the title group_heading_by_block gave block b, '' when it gave none
TitleOf(b) == IF attrs[b].has_title THEN attrs[b].title ELSE <<>>

\* titles joined by ";" in order, a title equal to the title accumulated so
\* far being skipped
RECURSIVE SkipJoin(_, _, _)
SkipJoin(acc, bs, i) ==
    IF i > Len(bs) THEN acc
    ELSE SkipJoin(IF TitleOf(bs[i]) # acc THEN acc \o <<";">> \o TitleOf(bs[i]) ELSE acc,
                  bs, i + 1)

\* C32: the title of a merged chunk is the titles of its contributing blocks
\* joined by ";" in document order, a title equal to the title accumulated so
\* far being skipped; every sub-chunk of a split oversized block carries
\* exactly the title of that block.
C32_Titles ==
    [][/\ MergeStep =>
            LET bs == ContributingBlocks(NewChunks[1])
            IN  NewChunks[1].title = SkipJoin(TitleOf(bs[1]), bs, 2)
       /\ SplitStep =>
            \A k \in 1..Len(NewChunks) : NewChunks[k].title = TitleOf(block_index)]_vars

\* titles joined by ";" in order, none skipped
RECURSIVE PlainJoin(_, _, _)
PlainJoin(acc, bs, i) ==
    IF i > Len(bs) THEN acc
    ELSE PlainJoin(acc \o <<";">> \o TitleOf(bs[i]), bs, i + 1)

\* the merge started at block_index has gone up to a <body> without a title
ViaUntitledBody(chunk) ==
    TopBlocks(chunk) = <<1>> /\ ~attrs[1].has_title /\ block_index # 1

\* C32 as the code has it: a chunk merged from sibling blocks has their titles
\* joined by ";" in document order, a title equal to the title accumulated so
\* far being skipped; a chunk made by going up to a container has the title of
\* that container, which for a <body> without a title is the titles of the
\* blocks collected directly under it joined by ";" with none skipped; every
\* sub-chunk of a split block has the title of that block.
C32_TitlesByAscent ==
    [][/\ MergeStep =>
            LET bs == ContributingBlocks(NewChunks[1])
            IN  NewChunks[1].title =
                    IF ViaUntitledBody(NewChunks[1])
                    THEN PlainJoin(TitleOf(bs[1]), bs, 2)
                    ELSE SkipJoin(TitleOf(bs[1]), bs, 2)
       /\ SplitStep =>
            \A k \in 1..Len(NewChunks) : NewChunks[k].title = TitleOf(block_index)]_vars

\* C32 witness: the merge has gone up to a <body> without a title over two
\* blocks of the same title, and the chunk carries that title twice.
C32_Witness ==
    /\ chunk_pc = "returned"
    /\ \E k \in 1..Len(all_chunks) :
         /\ all_chunks[k].title = <<"h", ";", "h">>
         /\ 1 \in SourceBlocks(all_chunks[k])

\* C37: for every block tree given to segment_blocks_into_chunks no assertion
\* of the segmentation code fails: combine_chunks_into_single_chunk is never
\* called with an empty list, its running total never exceeds 512, and
\* split_chunk_into_subchunks never makes an empty bucket.
C37_NoAssertionFails == chunk_pc # "raised"

\* C38: segmentation loses no content: when segment_blocks_into_chunks
\* returns, every leaf block is marked processed, and the words of every
\* block, those directly under a container block included, are in at least
\* one emitted chunk.
C38_NoContentLost ==
    chunk_pc = "returned" =>
        /\ \A b \in 1..Len(blocks) : ~HasNestedBlock(b) => attrs[b].processed
        /\ \A b \in 1..Len(blocks) :
             \A i \in 1..Len(OwnTokens(blocks, b)) :
                 OwnTokens(blocks, b)[i].k = "w" =>
                     \E k \in 1..Len(all_chunks) :
                         OwnTokens(blocks, b)[i] \in Range(all_chunks[k].tokens)

\* ------------------------------------------------ crawler claims, continued
\* a step of a worker task (the pool starts it, or process_url_worker ends),
\* and the step of the signal handler
WorkerStep ==
    /\ pc = "collect" /\ pc' = "collect"
    /\ \E i \in 1..Len(futures) : futures'[i].st # futures[i].st
SignalStep == ~shutdown_requested /\ shutdown_requested'

\* C35: the frontier sets are changed only by the scheduler and the reducer:
\* a step of a worker task and the signal handler leave pending_urls,
\* scraped_urls, errored_urls and processing_urls unchanged; the signal
\* handler changes only shutdown_requested, a worker only its own task.
C35_OnlySchedulerMutates ==
    [][/\ WorkerStep => UNCHANGED <<sets, shutdown_requested, logs, batch,
                                    results, enq_order>>
       /\ SignalStep => UNCHANGED <<sets, logs, pc, work, enq_order>>]_vars

\* C35 witness: shutdown was requested while a batch is in flight and a task
\* of it has ended, with URLs still pending and in flight.
C35_Witness ==
    /\ pc = "collect"
    /\ shutdown_requested
    /\ \E i \in 1..Len(futures) : futures[i].st = "FINISHED"
    /\ processing_urls # {}
    /\ pending_urls # {}

\* every URL in flight has an entry in pending_urls whose line is in the
\* pending log
InFlightPending ==
    \A u \in processing_urls :
        \E e \in pending_urls : e[1] = u /\ PendingLine(e) \in pending_log

\* C36: every URL in processing_urls still has an entry in pending_urls, and
\* the line of that entry is in the pending log; _get_next_batch removes no
\* entry from pending_urls, and during a run an entry leaves pending_urls only
\* when a result for its URL is reduced.
C36_InFlightStaysPending ==
    [][spider = "parallel" =>
         /\ InFlightPending'
         /\ BatchStep => pending_urls' = pending_urls
         /\ pc # "closed" =>
              \A e \in pending_urls \ pending_urls' :
                  pc = "reduce" /\ e[1] \in ResultUrls(results)]_vars

\* C36 witness: after an earlier batch was reduced, a batch is in flight, one
\* of its tasks has ended, and its URLs are in processing_urls.
C36_Witness ==
    /\ spider = "parallel"
    /\ pc = "collect"
    /\ scraped_urls # {}
    /\ processing_urls # {}
    /\ \E i \in 1..Len(futures) : futures[i].st = "FINISHED"

\* the step in which _get_next_batch returns an empty batch and the loop of
\* start_requests ends
EmptyBatchStep == spider = "parallel" /\ pc = "pull" /\ pc' = "done"

\* C34: when the scheduler loop ends because the next batch is empty, with no
\* shutdown requested, the crawl is complete: pending_urls and
\* processing_urls are empty and every URL that was ever enqueued is in
\* scraped_urls or errored_urls.
C34_EmptyBatchMeansComplete ==
    [][(EmptyBatchStep /\ ~shutdown_requested) =>
         /\ pending_urls = {}
         /\ processing_urls = {}
         /\ \A k \in 1..Len(enq_order) :
              enq_order[k][1] \in scraped_urls \cup errored_urls]_vars

\* C33: with a finite set of reachable URLs and worker tasks that all return,
\* the scheduler loop of the parallel spider ends: once the loop is entered,
\* _get_next_batch eventually returns an empty batch and start_requests
\* leaves the loop.
C33_LoopTerminates ==
    (spider = "parallel" /\ pc = "loop") ~> (pc = "done" /\ batch = <<>>)

\* C33 witness: the loop has ended on an empty batch, with no shutdown
\* requested, after URLs of every depth were scraped and none is pending.
C33_Witness ==
    /\ spider = "parallel"
    /\ pc = "done"
    /\ ~shutdown_requested
    /\ batch = <<>>
    /\ pending_urls = {}
    /\ Cardinality(scraped_urls) >= 3
=============================================================================
